---- MODULE Spec2Model ----
(***************************************************************************)
(* Model of src/conai.py: main() and the VoiceAI agent (construction, the  *)
(* listen -> get_ai_response -> speak loop of run(), and the exception     *)
(* handlers of listen, get_ai_response, speak and main).                   *)
(*                                                                         *)
(* Texts are sequences of one-character strings, so that str.lower() and   *)
(* str.strip() are computed character by character.  pc names the blocking *)
(* call that is in flight; an action is the completion of that call        *)
(* together with the code of run()/main() that follows it up to the next   *)
(* blocking call.                                                          *)
(***************************************************************************)
EXTENDS Integers, Sequences, FiniteSets

VARIABLES
    pc,                   \* the call in flight: main, init, listen, think,
                          \* speak_farewell, speak_reply, or exited
    GEMINI_API_KEY,       \* os.getenv("GEMINI_API_KEY")
    ELEVENLABS_API_KEY,   \* os.getenv("ELEVENLABS_API_KEY")
    ELEVENLABS_VOICE_ID,  \* os.getenv("ELEVENLABS_VOICE_ID")
    exitCode,             \* the process exit status
    printed,              \* the last top-level message main()/run() printed
    calibrated,           \* adjust_for_ambient_noise has run
    history,              \* chat_session history
    user_text,            \* run(): user_text
    ai_response,          \* run(): ai_response
    iteration,            \* number of loop iterations of run() started
    status,               \* how the last loop iteration ended
    nAI,                  \* get_ai_response calls in the current iteration
    nSpeak,               \* speak calls in the current iteration
    nFallback,            \* fallback_speak calls in the current iteration
    spokenText,           \* the text argument of the last speak call
    fallbackText,         \* the text argument of the last fallback_speak call
    synth                 \* which path produced audio in the last speak call

vars == <<pc, GEMINI_API_KEY, ELEVENLABS_API_KEY, ELEVENLABS_VOICE_ID,
          exitCode, printed, calibrated, history, user_text, ai_response,
          iteration, status, nAI, nSpeak, nFallback, spokenText,
          fallbackText, synth>>

----------------------------------------------------------------------------
(* Bounds *)

MaxTurns == 2

MaxPad == 1

----------------------------------------------------------------------------
(* Python values and string methods *)

\* Python's None, kept comparable with texts (it is no text: its one element
\* is not a character).
NoneValue == <<"None">>

\* `not x` for x a str or None.
NotMut(x) == x = NoneValue

Not(x) == x = NoneValue \/ x = <<>>

LowerCase == <<"a","b","c","d","e","f","g","h","i","j","k","l","m",
               "n","o","p","q","r","s","t","u","v","w","x","y","z">>

UpperCase == <<"A","B","C","D","E","F","G","H","I","J","K","L","M",
               "N","O","P","Q","R","S","T","U","V","W","X","Y","Z">>

Whitespace == {" ", "\t", "\n", "\r", "\f"}

LowerChar(c) ==
    IF \E i \in DOMAIN UpperCase : UpperCase[i] = c
    THEN LowerCase[CHOOSE i \in DOMAIN UpperCase : UpperCase[i] = c]
    ELSE c

\* str.lower()
lower(s) == [i \in 1..Len(s) |-> LowerChar(s[i])]

RECURSIVE lstrip(_)
lstrip(s) ==
    IF s # <<>> /\ Head(s) \in Whitespace THEN lstrip(Tail(s)) ELSE s

RECURSIVE rstrip(_)
rstrip(s) ==
    IF s # <<>> /\ s[Len(s)] \in Whitespace
    THEN rstrip(SubSeq(s, 1, Len(s) - 1))
    ELSE s

\* str.strip()
strip(s) == rstrip(lstrip(s))

----------------------------------------------------------------------------
(* Literals of the program *)

quit == <<"q","u","i","t">>

exit == <<"e","x","i","t">>

stop == <<"s","t","o","p">>

goodbye == <<"g","o","o","d","b","y","e">>

ExitPhrases == {quit, exit, stop, goodbye}

\* "Goodbye! It was nice talking to you."
farewell == <<"G","o","o","d","b","y","e","!"," ","I","t"," ","w","a","s",
              " ","n","i","c","e"," ","t","a","l","k","i","n","g"," ","t",
              "o"," ","y","o","u",".">>

\* "trouble responding."
Apology == <<"t","r","o","u","b","l","e"," ","r","e","s","p","o","n","d",
             "i","n","g",".">>

\* user_text.lower().strip() in ["quit", "exit", "stop", "goodbye"]
IsExitPhrase(text) == strip(lower(text)) \in ExitPhrases

----------------------------------------------------------------------------
(* Inputs: environment values, what the recogniser hears, what the dialogue *)
(* service replies                                                          *)

\* os.getenv: None when unset, else the value (possibly empty)
EnvValues == {NoneValue, <<>>, <<"k">>}

UpperChar(c) ==
    IF \E i \in DOMAIN LowerCase : LowerCase[i] = c
    THEN UpperCase[CHOOSE i \in DOMAIN LowerCase : LowerCase[i] = c]
    ELSE c

\* w with the letters at the positions in m in upper case
Cased(w, m) == [i \in 1..Len(w) |-> IF i \in m THEN UpperChar(w[i]) ELSE w[i]]

\* all lower case, one capital anywhere, all capitals
CaseMasks(w) ==
    {m \in SUBSET (1..Len(w)) : Cardinality(m) <= 1} \cup {1..Len(w)}

PadChars == <<" ", "\t", "\n">>

Pad(n) == [i \in 1..n |-> PadChars[((i - 1) % Len(PadChars)) + 1]]

\* an exit phrase in some letter case between leading and trailing whitespace
ExitUtterances ==
    UNION {{Pad(l) \o Cased(w, m) \o Pad(r) :
                m \in CaseMasks(w), l \in 0..MaxPad, r \in 0..MaxPad} :
           w \in ExitPhrases}

HelloThere == <<"H","e","l","l","o"," ","t","h","e","r","e">>

PleaseExitNow == <<"p","l","e","a","s","e"," ","e","x","i","t"," ","n","o","w">>

Exits == <<"e","x","i","t","s">>

StopIt == <<"S","t","o","p"," ","i","t">>

\* non-empty texts that are no exit phrase: ordinary speech, phrases that
\* contain or extend an exit phrase, and whitespace alone
NonExitUtterances ==
    {HelloThere, PleaseExitNow, Exits, StopIt} \cup {Pad(n) : n \in 1..MaxPad}

\* the texts recognize_google may return
Utterances == ExitUtterances \cup NonExitUtterances \cup {<<>>}

HiHowCanIHelp == <<"H","i","!"," ","H","o","w"," ","c","a","n"," ","I"," ","h","e","l","p","?">>

SureRaw == <<" ","S","u","r","e",".","\n">>

\* response.text of the dialogue service
RawReplies == {HiHowCanIHelp, SureRaw}

----------------------------------------------------------------------------
(* Initial state: the process has started, the environment is loaded *)

Init ==
    /\ pc = "main"
    /\ GEMINI_API_KEY \in EnvValues
    /\ ELEVENLABS_API_KEY \in EnvValues
    /\ ELEVENLABS_VOICE_ID \in EnvValues
    /\ exitCode = 0
    /\ printed = "none"
    /\ calibrated = FALSE
    /\ history = <<>>
    /\ user_text = NoneValue
    /\ ai_response = NoneValue
    /\ iteration = 0
    /\ status = "None"
    /\ nAI = 0
    /\ nSpeak = 0
    /\ nFallback = 0
    /\ spokenText = NoneValue
    /\ fallbackText = NoneValue
    /\ synth = "none"

----------------------------------------------------------------------------
(* How the process ends *)

\* sys.exit(1): SystemExit is no Exception, main's handlers let it through
SysExit(msg) ==
    /\ pc' = "exited"
    /\ exitCode' = 1
    /\ printed' = msg

\* main: except Exception -> print "Unexpected error", main returns
ExceptException ==
    /\ pc' = "exited"
    /\ exitCode' = exitCode
    /\ printed' = "unexpected"

\* main: except KeyboardInterrupt -> print "Session interrupted by user.",
\* main returns
ExceptKeyboardInterrupt ==
    /\ pc' = "exited"
    /\ exitCode' = exitCode
    /\ printed' = "interrupted"

\* run() returns after break, then main returns
RunReturns ==
    /\ pc' = "exited"
    /\ exitCode' = exitCode
    /\ printed' = "session_ended"

----------------------------------------------------------------------------
(* main() up to the construction of the agent *)

\* not gemini_key or not elevenlabs_key or not voice_id
MissingMut(gemini_key, elevenlabs_key, voice_id) ==
    Not(gemini_key) \/ Not(elevenlabs_key)

Missing(gemini_key, elevenlabs_key, voice_id) ==
    Not(gemini_key) \/ Not(elevenlabs_key) \/ Not(voice_id)

main ==
    /\ pc = "main"
    /\ IF Missing(GEMINI_API_KEY, ELEVENLABS_API_KEY, ELEVENLABS_VOICE_ID)
       THEN SysExit("missing_keys")
       ELSE pc' = "init" /\ UNCHANGED <<exitCode, printed>>
    /\ UNCHANGED <<GEMINI_API_KEY, ELEVENLABS_API_KEY, ELEVENLABS_VOICE_ID,
                   calibrated, history, user_text, ai_response, iteration,
                   status, nAI, nSpeak, nFallback, spokenText, fallbackText,
                   synth>>

----------------------------------------------------------------------------
(* VoiceAI.__init__, then the banner of run() *)

\* the steps of __init__ that may raise, in order
InitSteps == <<"configure", "recognizer", "microphone", "fallback_tts_engine",
               "model", "chat_session", "calibration">>

\* where construction may stop: nowhere, or at one of its steps
InitOutcomes == {"ok"} \cup {InitSteps[i] : i \in DOMAIN InitSteps}

VoiceAI_init ==
    /\ pc = "init"
    /\ \E outcome \in InitOutcomes :
          IF outcome = "ok"
          THEN /\ calibrated' = TRUE
               /\ history' = <<>>
               /\ pc' = "listen"
               /\ UNCHANGED <<exitCode, printed>>
          ELSE IF outcome = "configure"
          THEN /\ SysExit("api_config_error")
               /\ UNCHANGED <<calibrated, history>>
          ELSE /\ ExceptException
               /\ UNCHANGED <<calibrated, history>>
    /\ UNCHANGED <<GEMINI_API_KEY, ELEVENLABS_API_KEY, ELEVENLABS_VOICE_ID,
                   user_text, ai_response, iteration, status, nAI, nSpeak,
                   nFallback, spokenText, fallbackText, synth>>

----------------------------------------------------------------------------
(* VoiceAI.listen and the head of the loop body of run() *)

\* how recognizer.listen / recognize_google may end
ListenOutcomes == {"text", "WaitTimeoutError", "UnknownValueError", "Exception"}

\* listen(): the recognised text, or None from each except clause
listen(outcome, heard) == IF outcome = "text" THEN heard ELSE NoneValue

Listen ==
    /\ pc = "listen"
    /\ iteration < MaxTurns
    /\ \E outcome \in ListenOutcomes, heard \in Utterances :
          LET text == listen(outcome, heard) IN
          /\ user_text' = text
          /\ IF Not(text)
             THEN pc' = "listen" /\ status' = "Idle"
             ELSE IF IsExitPhrase(text)
             THEN pc' = "speak_farewell" /\ status' = "InProgress"
             ELSE pc' = "think" /\ status' = "InProgress"
    /\ iteration' = iteration + 1
    /\ nAI' = 0
    /\ nSpeak' = 0
    /\ nFallback' = 0
    /\ spokenText' = NoneValue
    /\ fallbackText' = NoneValue
    /\ synth' = "none"
    /\ UNCHANGED <<GEMINI_API_KEY, ELEVENLABS_API_KEY, ELEVENLABS_VOICE_ID,
                   exitCode, printed, calibrated, history, ai_response>>

----------------------------------------------------------------------------
(* VoiceAI.get_ai_response *)

\* chat_session.send_message when it succeeds: the session records the
\* message and the response, as received
send_messageMut(h, content, raw) ==
    <<[role |-> "user", text |-> content],
      [role |-> "model", text |-> raw]>> \o h

send_message(h, content, raw) ==
    h \o <<[role |-> "user", text |-> content],
           [role |-> "model", text |-> raw]>>

\* the value get_ai_response returns
get_ai_response(ok, raw) == IF ok THEN strip(raw) ELSE Apology

GetAIResponse ==
    /\ pc = "think"
    /\ \E ok \in BOOLEAN, raw \in RawReplies :
          /\ ai_response' = get_ai_response(ok, raw)
          /\ history' = IF ok THEN send_message(history, user_text, raw)
                              ELSE history
    /\ nAI' = nAI + 1
    /\ pc' = "speak_reply"
    /\ UNCHANGED <<GEMINI_API_KEY, ELEVENLABS_API_KEY, ELEVENLABS_VOICE_ID,
                   exitCode, printed, calibrated, user_text, iteration,
                   status, nSpeak, nFallback, spokenText, fallbackText,
                   synth>>

----------------------------------------------------------------------------
(* VoiceAI.speak and VoiceAI.fallback_speak *)

\* fallback_speak(text): no handler of its own, an error of the engine is
\* raised to the caller
fallback_speak(text, fallbackOk) ==
    [synth |-> IF fallbackOk THEN "fallback" ELSE "none",
     nFallback |-> 1,
     fallbackText |-> text,
     raised |-> ~fallbackOk]

speakMut(text, primaryOk, fallbackOk) ==
    IF primaryOk
    THEN [synth |-> "primary", nFallback |-> 0, fallbackText |-> NoneValue,
          raised |-> FALSE]
    ELSE [fallback_speak(text, fallbackOk) EXCEPT !.raised = TRUE]

\* speak(text): convert and play; on any Exception, fallback_speak(text)
speak(text, primaryOk, fallbackOk) ==
    IF primaryOk
    THEN [synth |-> "primary", nFallback |-> 0, fallbackText |-> NoneValue,
          raised |-> FALSE]
    ELSE fallback_speak(text, fallbackOk)

\* the bookkeeping of one speak(text) call
Spoken(text, r) ==
    /\ nSpeak' = nSpeak + 1
    /\ spokenText' = text
    /\ synth' = r.synth
    /\ nFallback' = nFallback + r.nFallback
    /\ fallbackText' = r.fallbackText

\* run(): self.speak(farewell); print("Session ended."); break
SpeakFarewell ==
    /\ pc = "speak_farewell"
    /\ \E primaryOk \in BOOLEAN, fallbackOk \in BOOLEAN :
          LET r == speak(farewell, primaryOk, fallbackOk) IN
          /\ Spoken(farewell, r)
          /\ IF r.raised
             THEN ExceptException /\ UNCHANGED status
             ELSE RunReturns /\ status' = "Exit"
    /\ UNCHANGED <<GEMINI_API_KEY, ELEVENLABS_API_KEY, ELEVENLABS_VOICE_ID,
                   calibrated, history, user_text, ai_response, iteration,
                   nAI>>

\* run(): self.speak(ai_response), then the next iteration
SpeakReply ==
    /\ pc = "speak_reply"
    /\ \E primaryOk \in BOOLEAN, fallbackOk \in BOOLEAN :
          LET r == speak(ai_response, primaryOk, fallbackOk) IN
          /\ Spoken(ai_response, r)
          /\ IF r.raised
             THEN ExceptException /\ UNCHANGED status
             ELSE /\ pc' = "listen"
                  /\ status' = "Continue"
                  /\ UNCHANGED <<exitCode, printed>>
    /\ UNCHANGED <<GEMINI_API_KEY, ELEVENLABS_API_KEY, ELEVENLABS_VOICE_ID,
                   calibrated, history, user_text, ai_response, iteration,
                   nAI>>

----------------------------------------------------------------------------
(* KeyboardInterrupt *)

\* the calls during which Ctrl-C may arrive: all inside main's try block
Interruptible == {"init", "listen", "think", "speak_farewell", "speak_reply"}

\* an interrupt that lets get_ai_response complete before it is observed
KeyboardInterruptMut ==
    /\ pc \in Interruptible
    /\ ExceptKeyboardInterrupt
    /\ nAI' = IF pc = "think" THEN nAI + 1 ELSE nAI
    /\ UNCHANGED <<GEMINI_API_KEY, ELEVENLABS_API_KEY, ELEVENLABS_VOICE_ID,
                   calibrated, history, user_text, ai_response, iteration,
                   status, nSpeak, nFallback, spokenText, fallbackText,
                   synth>>

\* KeyboardInterrupt is no Exception: the handlers of listen,
\* get_ai_response and speak let it through, the call in flight is
\* abandoned and main's handler runs
KeyboardInterrupt ==
    /\ pc \in Interruptible
    /\ ExceptKeyboardInterrupt
    /\ UNCHANGED <<GEMINI_API_KEY, ELEVENLABS_API_KEY, ELEVENLABS_VOICE_ID,
                   calibrated, history, user_text, ai_response, iteration,
                   status, nAI, nSpeak, nFallback, spokenText, fallbackText,
                   synth>>

----------------------------------------------------------------------------

Next ==
    \/ main
    \/ VoiceAI_init
    \/ Listen
    \/ GetAIResponse
    \/ SpeakFarewell
    \/ SpeakReply
    \/ KeyboardInterrupt

Spec == Init /\ [][Next]_vars

----------------------------------------------------------------------------
(* Properties *)

\* the loop iteration in progress (or last completed) heard a non-exit text
HeardNonExit == user_text \in NonExitUtterances

\* the loop iteration in progress (or last completed) heard an exit text
HeardExit == user_text \in ExitUtterances

\* the last speak call failed on both paths
BothSynthesisPathsFailed == nSpeak = 1 /\ nFallback = 1 /\ synth = "none"

\* C1: when both the primary synthesis call and fallback_speak fail in a
\* turn, the error stays in that turn: the process does not end with an
\* unexpected error, and run() is at its next listen (unless interrupted).
C1_FallbackFailureContained ==
    (HeardNonExit /\ BothSynthesisPathsFailed) =>
        /\ printed # "unexpected"
        /\ pc = "listen" \/ printed = "interrupted"

\* C2: a turn that heard an exit phrase (any letter case, surrounding
\* whitespace) never calls get_ai_response, and once it has called speak it
\* has called it exactly once, with the farewell, and has ended the loop with
\* status Exit.
C2_ExitTurn ==
    HeardExit =>
        /\ nAI = 0
        /\ pc \in {"speak_farewell", "exited"}
        /\ nSpeak >= 1 =>
              /\ nSpeak = 1
              /\ spokenText = farewell
              /\ status = "Exit"
              /\ pc = "exited"

\* C3: a turn whose capture yields None or the empty text is Idle: no
\* get_ai_response, speak or fallback_speak call, nothing of the agent's
\* state changes, and the loop is at its next listen.
C3_IdleTurn ==
    [][(pc = "listen" /\ iteration' = iteration + 1
            /\ (user_text' = NoneValue \/ user_text' = <<>>)) =>
          /\ status' = "Idle"
          /\ pc' = "listen"
          /\ nAI' = 0 /\ nSpeak' = 0 /\ nFallback' = 0
          /\ synth' = "none"
          /\ history' = history
          /\ ai_response' = ai_response
          /\ calibrated' = calibrated
          /\ exitCode' = exitCode
          /\ printed' = printed]_vars

\* an idle turn (empty text) after a turn that grew the history
C3_Witness ==
    /\ status = "Idle"
    /\ user_text = <<>>
    /\ pc = "listen"
    /\ Len(history) = 2

\* C4: when the dialogue call fails in a non-exit turn, get_ai_response
\* returns the apology, and once the turn has called speak it has called it
\* exactly once, with the apology, and the loop continues (status Continue).
C4_DialogueFailureTurn ==
    (HeardNonExit /\ nAI = 1 /\ ai_response = Apology) =>
        /\ pc \in {"speak_reply", "listen", "exited"}
        /\ nSpeak >= 1 =>
              /\ nSpeak = 1
              /\ spokenText = Apology
              /\ status = "Continue"
              /\ printed # "unexpected"

\* C5: a speak(text) call whose primary path fails and whose fallback works
\* calls fallback_speak exactly once with the same text, raises nothing, and
\* the turn ends as it would had the primary path worked (Exit after the
\* farewell, Continue after a reply); a speak call whose primary path works
\* calls fallback_speak zero times.
C5_FallbackSynthesis ==
    [][(pc \in {"speak_farewell", "speak_reply"} /\ nSpeak' = nSpeak + 1) =>
          /\ synth' = "primary" => nFallback' = 0 /\ fallbackText' = NoneValue
          /\ synth' = "fallback" =>
                /\ nFallback' = 1
                /\ fallbackText' = spokenText'
                /\ printed' # "unexpected"
          /\ synth' \in {"primary", "fallback"} =>
                IF pc = "speak_farewell"
                THEN /\ status' = "Exit"
                     /\ pc' = "exited"
                     /\ printed' = "session_ended"
                     /\ spokenText' = farewell
                ELSE /\ status' = "Continue"
                     /\ pc' = "listen"
                     /\ printed' = printed
                     /\ spokenText' = ai_response]_vars

\* the farewell was spoken by the fallback engine and the loop ended
C5_Witness ==
    /\ synth = "fallback"
    /\ nFallback = 1
    /\ fallbackText = farewell
    /\ status = "Exit"

\* some credential is None or empty
SomeCredentialMissing ==
    \E c \in {GEMINI_API_KEY, ELEVENLABS_API_KEY, ELEVENLABS_VOICE_ID} :
        c = NoneValue \/ c = <<>>

\* C6: with any of the three credentials missing or empty, main() exits with
\* code 1 before the agent is constructed: no calibration, no listen, no
\* loop iteration.
C6_MissingCredentials ==
    SomeCredentialMissing =>
        /\ pc \in {"main", "exited"}
        /\ pc = "exited" => exitCode = 1 /\ printed = "missing_keys"
        /\ ~calibrated
        /\ iteration = 0
        /\ user_text = NoneValue
        /\ status = "None"
        /\ nAI = 0 /\ nSpeak = 0 /\ nFallback = 0

\* only the voice id is missing (empty), and the process has exited with 1
C6_Witness ==
    /\ GEMINI_API_KEY = <<"k">>
    /\ ELEVENLABS_API_KEY = <<"k">>
    /\ ELEVENLABS_VOICE_ID = <<>>
    /\ pc = "exited"
    /\ exitCode = 1

\* C7: the exit code is 0 exactly on a graceful exit (exit phrase, clean
\* interrupt), and 1 on configuration failure and on an exception raised
\* while the agent is constructed.
C7_ExitCodes ==
    pc = "exited" =>
        /\ exitCode = 0 <=> printed \in {"session_ended", "interrupted"}
        /\ printed \in {"missing_keys", "api_config_error"} => exitCode = 1
        /\ (printed = "unexpected" /\ iteration = 0) => exitCode = 1

\* C8 as stated: an interrupt is observed only once the turn in progress has
\* performed all its steps.
C8_InterruptAtLoopTop ==
    printed = "interrupted" =>
        /\ HeardNonExit => nAI = 1 /\ nSpeak = 1
        /\ HeardExit => nSpeak = 1

\* C8, amended: an interrupt is observed during whichever call it arrives
\* in (construction, listen, get_ai_response, speak); that call is abandoned,
\* the turn performs no further step, and main logs the interruption and
\* returns (exit code 0).
C8_InterruptPreempts ==
    /\ [](printed = "interrupted" => pc = "exited" /\ exitCode = 0)
    /\ [][(printed' = "interrupted" /\ printed # "interrupted") =>
             /\ pc \in {"init", "listen", "think", "speak_farewell",
                        "speak_reply"}
             /\ nAI' = nAI /\ nSpeak' = nSpeak /\ nFallback' = nFallback
             /\ history' = history
             /\ status' = status
             /\ user_text' = user_text /\ ai_response' = ai_response]_vars

\* interrupted during speak: the reply was generated and never spoken
C8_Witness ==
    /\ printed = "interrupted"
    /\ HeardNonExit
    /\ status = "InProgress"
    /\ nAI = 1
    /\ nSpeak = 0

\* C9: a turn that heard a non-empty text that is no exit phrase calls
\* get_ai_response once and then speak once with the text it returned, in
\* that order, and the loop continues (status Continue).
C9_NonExitTurn ==
    HeardNonExit =>
        /\ pc \in {"think", "speak_reply", "listen", "exited"}
        /\ pc = "think" => nAI = 0 /\ nSpeak = 0
        /\ pc = "speak_reply" => nAI = 1 /\ nSpeak = 0
        /\ pc = "listen" => nAI = 1 /\ nSpeak = 1
        /\ pc = "exited" => printed = "interrupted"
        /\ nSpeak >= 1 =>
              /\ nAI = 1
              /\ nSpeak = 1
              /\ spokenText = ai_response
              /\ status = "Continue"

IsPrefix(s, t) == Len(s) <= Len(t) /\ SubSeq(t, 1, Len(s)) = s

\* t is raw without its leading and trailing whitespace
IsTrimOf(t, raw) ==
    \E i \in 0..Len(raw), j \in 0..Len(raw) :
        /\ i + j <= Len(raw)
        /\ t = SubSeq(raw, i + 1, Len(raw) - j)
        /\ \A k \in 1..i : raw[k] \in {" ", "\t", "\n", "\r", "\f"}
        /\ \A k \in (Len(raw) - j + 1)..Len(raw) :
              raw[k] \in {" ", "\t", "\n", "\r", "\f"}
        /\ t # <<>> => /\ t[1] \notin {" ", "\t", "\n", "\r", "\f"}
                       /\ t[Len(t)] \notin {" ", "\t", "\n", "\r", "\f"}

====
